---- MODULE Spec2Model ----
(***************************************************************************)
(* Inventory threshold calculator (src/app.py): main() hands an uploaded   *)
(* table to process_csv, which validates the order_date column, scans the  *)
(* events of every (sku, day) group in timestamp order up to the first     *)
(* event that is not fully served, averages the daily thresholds per week, *)
(* pivots them into one row per SKU and ranks the rows by their Average.   *)
(*                                                                         *)
(* Numbers that pandas holds as floats (weekly means, Average) are kept as *)
(* exact fractions [n, d]; the missing value NaN is the fraction with d=0. *)
(* DataFrame.sort_values is called with its default kind ("quicksort"),    *)
(* which pandas documents as not stable: the order it gives to rows with   *)
(* equal keys is a choice among all orders that are sorted.                *)
(***************************************************************************)
EXTENDS Integers, Sequences, FiniteSets, TLC

\* ------------------------------------------------------------------------
\* Bounds and input universe
\* ------------------------------------------------------------------------
MaxRows == 3

DaysPerWeek == 7

\* SKU identifiers, listed in their sorted (lexicographic) order.
SkuSeq == <<"A", "B">>
Skus == {SkuSeq[i] : i \in 1..Len(SkuSeq)}

\* Timestamps: day number (day 0 is a Monday) and time of day.
\* Days 5 and 6 fall in one week, day 7 opens the next one.
Stamps == {[day |-> 5, time |-> 0], [day |-> 5, time |-> 1],
           [day |-> 6, time |-> 0], [day |-> 7, time |-> 0]}

\* (ordered_quantity, found_quantity, state) of an event: fully served,
\* short on quantity, and withdrawn with matching quantities.
EventKinds == {<<1, 1, "active">>, <<2, 1, "active">>, <<1, 1, "Removed">>}

AllEvents == {[sku |-> s, order_date |-> t, ordered_quantity |-> k[1],
               found_quantity |-> k[2], state |-> k[3]] :
                 s \in Skus, t \in Stamps, k \in EventKinds}

\* The rows a table is drawn from. The first SKU takes every timestamp and
\* kind; the others, present for the pivot and the ranking, take the first
\* timestamp of each week, served or short.
Events == {e \in AllEvents :
             \/ e.sku = SkuSeq[1]
             \/ /\ e.order_date \in {[day |-> 5, time |-> 0], [day |-> 7, time |-> 0]}
                /\ e.state = "active"}

AllColumns == {"order_date", "sku", "ordered_quantity", "found_quantity", "state"}

\* The header of the uploaded table: complete, or lacking one column.
ColumnSets == {AllColumns} \cup {AllColumns \ {c} : c \in AllColumns}

Tables == UNION {[1..n -> Events] : n \in 0..MaxRows}

\* Tables of at most one row: what a run that ends at the first missing
\* column can depend on.
ShortTables == {t \in Tables : Len(t) <= 1}

\* ------------------------------------------------------------------------
\* Values
\* ------------------------------------------------------------------------
None == -1
NoSku == "none"
NaN == [n |-> 0, d |-> 0]

RECURSIVE GCD(_, _)
GCD(a, b) == IF b = 0 THEN a ELSE GCD(b, a % b)

\* The fraction n/d (n >= 0, d > 0) in lowest terms.
Rat(n, d) == LET g == GCD(n, d) IN [n |-> n \div g, d |-> d \div g]

RatAdd(a, b) == Rat(a.n * b.d + b.n * a.d, a.d * b.d)

RatLess(a, b) == a.n * b.d < b.n * a.d

IsNaN(v) == v.d = 0

\* str.lower() on the state labels of the input universe.
Lower(s) == CASE s = "Removed" -> "removed"
              [] s = "REMOVED" -> "removed"
              [] OTHER -> s

\* Permutations of 1..n.
Perms(n) == {f \in [1..n -> 1..n] : \A i, j \in 1..n : f[i] = f[j] => i = j}

\* ------------------------------------------------------------------------
\* State
\* ------------------------------------------------------------------------
VARIABLES
    df,                \* the table handed to process_csv: a sequence of rows
    columns,           \* the column names of df
    unparsable,        \* TRUE when order_date holds a value to_datetime rejects
    pc,                \* "validate", "extract", "render" or "done"
    pending,           \* (sku, day) groups the nested groupby loops still visit
    sku, day, day_df,  \* loop variables of the group scanned last
    cumulative,
    threshold_for_day,
    daily_thresholds,  \* sequence of [sku, day, threshold]
    weekly,            \* set of [sku, week, threshold] weekly cells
    result_df,         \* what process_csv returned: sequence of result rows
    errors,            \* messages passed to st.error, in order
    raised,            \* the exception that left process_csv, or "none"
    shown,             \* what main put on the page after processing
    prev               \* the result of the run before this one, if any

vars == <<df, columns, unparsable, pc, pending, sku, day, day_df, cumulative,
          threshold_for_day, daily_thresholds, weekly, result_df, errors,
          raised, shown, prev>>

\* ------------------------------------------------------------------------
\* Daily threshold extraction (process_csv, lines 64-89)
\* ------------------------------------------------------------------------
\* order_date.dt.date: the calendar day of a timestamp.
DayOf(t) == t.day

Before(a, b) == DayOf(a) < DayOf(b) \/ (DayOf(a) = DayOf(b) /\ a.time < b.time)

SkuRank(s) == CHOOSE i \in 1..Len(SkuSeq) : SkuSeq[i] = s

KeyLeq(a, b) == SkuRank(a[1]) < SkuRank(b[1]) \/ (a[1] = b[1] /\ a[2] <= b[2])

RECURSIVE SortKeys(_)
SortKeys(S) ==
    IF S = {} THEN <<>>
    ELSE LET m == CHOOSE k \in S : \A o \in S : KeyLeq(k, o)
         IN  <<m>> \o SortKeys(S \ {m})

\* The groups of df.groupby('sku') and, inside each, groupby('day'), in the
\* order the loops visit them: groupby sorts its keys.
GroupKeys(table) ==
    SortKeys({<<table[i].sku, DayOf(table[i].order_date)>> : i \in 1..Len(table)})

\* The rows of one group, in their order in the table.
GroupRows(table, s, d) ==
    LET InGroup(r) == r.sku = s /\ DayOf(r.order_date) = d
    IN  SelectSeq(table, InGroup)

\* Line 74 left out: the day is scanned in the order of the table.
SortValuesInInputOrder(rows) == {rows}

\* day_df.sort_values('order_date'): every order of the rows that is
\* ascending in order_date.
SortValuesByDate(rows) ==
    LET n == Len(rows)
        Sorted(p) == \A i \in 1..(n - 1) :
                        ~Before(rows[p[i + 1]].order_date, rows[p[i]].order_date)
    IN  {[i \in 1..n |-> rows[p[i]]] : p \in {q \in Perms(n) : Sorted(q)}}

\* row.get('state', ''): the state cell, '' when the column is absent.
GetState(row, cols) == IF "state" \in cols THEN row.state ELSE ""

\* Line 81 without .lower(): only the exact label "removed" stops the scan.
FailsCaseSensitive(row, cols) ==
    \/ row.found_quantity # row.ordered_quantity
    \/ GetState(row, cols) = "removed"

\* The test of line 81: the event is not fully served.
Fails(row, cols) ==
    \/ row.found_quantity # row.ordered_quantity
    \/ Lower(GetState(row, cols)) = "removed"

\* The loop of lines 77-85 from row i on.
RECURSIVE Scan(_, _, _, _)
Scan(rows, i, cum, cols) ==
    IF i > Len(rows) THEN [cumulative |-> cum, threshold_for_day |-> None]
    ELSE IF Fails(rows[i], cols)
         THEN [cumulative |-> cum, threshold_for_day |-> cum]
         ELSE Scan(rows, i + 1, cum + rows[i].found_quantity, cols)

\* Lines 77-85 with the failing event's found_quantity added before the break.
RECURSIVE ScanCountsFailing(_, _, _, _)
ScanCountsFailing(rows, i, cum, cols) ==
    IF i > Len(rows) THEN [cumulative |-> cum, threshold_for_day |-> None]
    ELSE IF Fails(rows[i], cols)
         THEN [cumulative |-> cum + rows[i].found_quantity,
               threshold_for_day |-> cum + rows[i].found_quantity]
         ELSE ScanCountsFailing(rows, i + 1, cum + rows[i].found_quantity, cols)

ScanDayCountsFailing(rows, cols) == ScanCountsFailing(rows, 1, 0, cols)

\* Lines 77-85 with "cumulative = ..." in place of "cumulative += ...".
RECURSIVE ScanOverwrites(_, _, _, _)
ScanOverwrites(rows, i, cum, cols) ==
    IF i > Len(rows) THEN [cumulative |-> cum, threshold_for_day |-> None]
    ELSE IF Fails(rows[i], cols)
         THEN [cumulative |-> cum, threshold_for_day |-> cum]
         ELSE ScanOverwrites(rows, i + 1, rows[i].found_quantity, cols)

ScanDayOverwrites(rows, cols) == ScanOverwrites(rows, 1, 0, cols)

\* Lines 75-85: the scan of one sorted day.
ScanDay(rows, cols) == Scan(rows, 1, 0, cols)

\* Lines 75-88: the threshold of one sorted day.
ThresholdForDay(rows, cols) ==
    LET r == ScanDay(rows, cols)
    IN  IF r.threshold_for_day = None THEN r.cumulative ELSE r.threshold_for_day

\* ------------------------------------------------------------------------
\* Weekly aggregation and ranking (process_csv, lines 91-112)
\* ------------------------------------------------------------------------
\* An emptiness test that never reports an empty frame.
EmptyNever(frame) == FALSE

\* DataFrame.empty
Empty(frame) == Len(frame) = 0

\* to_period('W'): weeks run from Monday to Sunday.
WeekOf(d) == d \div DaysPerWeek

RECURSIVE SumThreshold(_)
SumThreshold(recs) ==
    IF recs = <<>> THEN 0 ELSE Head(recs).threshold + SumThreshold(Tail(recs))

\* groupby(['sku', 'week'])['threshold'].mean()
Weekly(daily) ==
    LET Keys == {<<daily[i].sku, WeekOf(daily[i].day)>> : i \in 1..Len(daily)}
        InGroup(k) == LET P(r) == r.sku = k[1] /\ WeekOf(r.day) = k[2]
                      IN  SelectSeq(daily, P)
    IN  {[sku |-> k[1], week |-> k[2],
          threshold |-> Rat(SumThreshold(InGroup(k)), Len(InGroup(k)))] : k \in Keys}

WeekColumns(cells) == {c.week : c \in cells}

\* A pivot with fill_value=0: a week without a cell shows 0.
PivotFillsZero(cells) ==
    LET Present(s) == \E c \in cells : c.sku = s
        Cell(s, w) == IF \E c \in cells : c.sku = s /\ c.week = w
                      THEN (CHOOSE c \in cells : c.sku = s /\ c.week = w).threshold
                      ELSE Rat(0, 1)
        index == SelectSeq(SkuSeq, Present)
    IN  [i \in 1..Len(index) |->
            [sku |-> index[i],
             cells |-> [w \in WeekColumns(cells) |-> Cell(index[i], w)]]]

\* weekly.pivot(index='sku', columns='week', values='threshold'): one row
\* per SKU in sorted SKU order, NaN where the SKU has no cell for a week.
Pivot(cells) ==
    LET Present(s) == \E c \in cells : c.sku = s
        Cell(s, w) == IF \E c \in cells : c.sku = s /\ c.week = w
                      THEN (CHOOSE c \in cells : c.sku = s /\ c.week = w).threshold
                      ELSE NaN
        index == SelectSeq(SkuSeq, Present)
    IN  [i \in 1..Len(index) |->
            [sku |-> index[i],
             cells |-> [w \in WeekColumns(cells) |-> Cell(index[i], w)]]]

RECURSIVE RatSum(_, _)
RatSum(f, S) ==
    IF S = {} THEN Rat(0, 1)
    ELSE LET w == CHOOSE x \in S : TRUE
         IN  RatAdd(f[w], RatSum(f, S \ {w}))

\* A row mean that divides by the number of week columns, missing or not.
RowMeanCountsMissing(cells) ==
    LET Valid == {w \in DOMAIN cells : ~IsNaN(cells[w])}
        total == RatSum(cells, Valid)
    IN  IF Valid = {} THEN NaN
        ELSE Rat(total.n, total.d * Cardinality(DOMAIN cells))

\* mean(axis=1) over the week columns: NaN cells are skipped.
RowMean(cells) ==
    LET Valid == {w \in DOMAIN cells : ~IsNaN(cells[w])}
        total == RatSum(cells, Valid)
    IN  IF Valid = {} THEN NaN
        ELSE Rat(total.n, total.d * Cardinality(Valid))

WithAverage(rows) ==
    [i \in 1..Len(rows) |->
        [sku |-> rows[i].sku, cells |-> rows[i].cells,
         Average |-> RowMean(rows[i].cells)]]

\* pivot_df.sort_values('Average', ascending=False): every order of the rows
\* that is descending in Average.
SortValuesByAverage(rows) ==
    LET n == Len(rows)
        Sorted(p) == \A i \in 1..(n - 1) :
                        ~RatLess(rows[p[i]].Average, rows[p[i + 1]].Average)
    IN  {[i \in 1..n |-> rows[p[i]]] : p \in {q \in Perms(n) : Sorted(q)}}

\* ------------------------------------------------------------------------
\* Initial state: main has read a table and is about to call process_csv
\* ------------------------------------------------------------------------
Fresh(table, cols, bad, before) ==
    /\ df = table
    /\ columns = cols
    /\ unparsable = bad
    /\ pc = "validate"
    /\ pending = <<>>
    /\ sku = NoSku
    /\ day = None
    /\ day_df = <<>>
    /\ cumulative = 0
    /\ threshold_for_day = None
    /\ daily_thresholds = <<>>
    /\ weekly = {}
    /\ result_df = <<>>
    /\ errors = <<>>
    /\ raised = "none"
    /\ shown = {}
    /\ prev = before

NoPrev == [ran |-> FALSE, result_df |-> <<>>]

Init ==
    \E table \in Tables, cols \in ColumnSets, bad \in BOOLEAN :
        /\ bad => (cols = AllColumns /\ table # <<>>)
        /\ (bad \/ cols # AllColumns) => table \in ShortTables
        /\ Fresh(table, cols, bad, NoPrev)

\* ------------------------------------------------------------------------
\* Actions
\* ------------------------------------------------------------------------
\* Lines 54-71: check and convert order_date, derive day, group by sku.
Validate ==
    /\ pc = "validate"
    /\ \/ /\ "order_date" \notin columns
          /\ errors' = Append(errors, "The CSV file must include an 'order_date' column.")
          /\ pc' = "render"
          /\ UNCHANGED <<pending, raised>>
       \/ /\ "order_date" \in columns
          /\ unparsable
          /\ errors' = Append(errors, "Error converting 'order_date' to datetime")
          /\ pc' = "render"
          /\ UNCHANGED <<pending, raised>>
       \/ /\ "order_date" \in columns
          /\ ~unparsable
          /\ "sku" \notin columns
          /\ raised' = "KeyError"
          /\ pc' = "done"
          /\ UNCHANGED <<pending, errors>>
       \/ /\ "order_date" \in columns
          /\ ~unparsable
          /\ "sku" \in columns
          /\ pending' = GroupKeys(df)
          /\ pc' = "extract"
          /\ UNCHANGED <<errors, raised>>
    /\ UNCHANGED <<df, columns, unparsable, sku, day, day_df, cumulative,
                   threshold_for_day, daily_thresholds, weekly, result_df,
                   shown, prev>>

\* Lines 73-89: one pass of the inner loop, for the next (sku, day) group.
ExtractDay ==
    /\ pc = "extract"
    /\ pending # <<>>
    /\ sku' = Head(pending)[1]
    /\ day' = Head(pending)[2]
    /\ \/ /\ {"found_quantity", "ordered_quantity"} \subseteq columns
          /\ day_df' \in SortValuesByDate(GroupRows(df, sku', day'))
          /\ cumulative' = ScanDay(day_df', columns).cumulative
          /\ threshold_for_day' = ThresholdForDay(day_df', columns)
          /\ daily_thresholds' = Append(daily_thresholds,
                 [sku |-> sku', day |-> day', threshold |-> threshold_for_day'])
          /\ pending' = Tail(pending)
          /\ UNCHANGED <<pc, raised>>
       \/ /\ ~({"found_quantity", "ordered_quantity"} \subseteq columns)
          /\ day_df' \in SortValuesByDate(GroupRows(df, sku', day'))
          /\ raised' = "KeyError"
          /\ pc' = "done"
          /\ UNCHANGED <<cumulative, threshold_for_day, daily_thresholds, pending>>
    /\ UNCHANGED <<df, columns, unparsable, weekly, result_df, errors, shown, prev>>

\* Lines 91-112: the empty check, weekly means, pivot, Average and ranking.
Aggregate ==
    /\ pc = "extract"
    /\ pending = <<>>
    /\ \/ /\ Empty(daily_thresholds)
          /\ errors' = Append(errors, "No threshold data could be computed from the CSV file.")
          /\ UNCHANGED <<weekly, result_df>>
       \/ /\ ~Empty(daily_thresholds)
          /\ weekly' = Weekly(daily_thresholds)
          /\ result_df' \in SortValuesByAverage(WithAverage(Pivot(weekly')))
          /\ UNCHANGED errors
    /\ pc' = "render"
    /\ UNCHANGED <<df, columns, unparsable, pending, sku, day, day_df, cumulative,
                   threshold_for_day, daily_thresholds, raised, shown, prev>>

\* main, lines 158-170: show the table and the download unless it is empty.
Render ==
    /\ pc = "render"
    /\ \/ /\ ~Empty(result_df)
          /\ shown' = {"success", "table", "download"}
       \/ /\ Empty(result_df)
          /\ UNCHANGED shown
    /\ pc' = "done"
    /\ UNCHANGED <<df, columns, unparsable, pending, sku, day, day_df, cumulative,
                   threshold_for_day, daily_thresholds, weekly, result_df, errors,
                   raised, prev>>

Next == Validate \/ ExtractDay \/ Aggregate \/ Render

Spec == Init /\ [][Next]_vars

\* main is run again on a table holding the same rows in another order.
Rerun ==
    /\ pc = "done"
    /\ ~prev.ran
    /\ \E p \in Perms(Len(df)) : df' = [i \in 1..Len(df) |-> df[p[i]]]
    /\ df' # df
    /\ prev' = [ran |-> TRUE, result_df |-> result_df]
    /\ pc' = "validate"
    /\ pending' = <<>>
    /\ sku' = NoSku
    /\ day' = None
    /\ day_df' = <<>>
    /\ cumulative' = 0
    /\ threshold_for_day' = None
    /\ daily_thresholds' = <<>>
    /\ weekly' = {}
    /\ result_df' = <<>>
    /\ errors' = <<>>
    /\ raised' = "none"
    /\ shown' = {}
    /\ UNCHANGED <<columns, unparsable>>

NextRerun == Next \/ Rerun

\* The reruns are explored on tables of events whose state is "active".
InitRerun ==
    \E table \in Tables, cols \in ColumnSets, bad \in BOOLEAN :
        /\ bad => (cols = AllColumns /\ table # <<>>)
        /\ (bad \/ cols # AllColumns) => table \in ShortTables
        /\ \A i \in 1..Len(table) : table[i].state = "active"
        /\ Fresh(table, cols, bad, NoPrev)

SpecRerun == InitRerun /\ [][NextRerun]_vars

\* ------------------------------------------------------------------------
\* Properties
\* ------------------------------------------------------------------------
RemovedAnyCase(e) ==
    "state" \in columns /\ e.state \in {"removed", "Removed", "REMOVED"}

FullyServed(e) == e.found_quantity = e.ordered_quantity /\ ~RemovedAnyCase(e)

\* A (sku, day) group has been scanned and its threshold recorded.
Extracted == pc = "extract" /\ day_df # <<>>

\* process_csv has returned a table with rows.
Ranked == pc \in {"render", "done"} /\ result_df # <<>>

LastDaily == daily_thresholds[Len(daily_thresholds)]

\* Length of the longest prefix of fully served events.
ServedPrefix(s) ==
    CHOOSE k \in 0..Len(s) :
        /\ \A i \in 1..k : FullyServed(s[i])
        /\ k < Len(s) => ~FullyServed(s[k + 1])

RECURSIVE FoundUpTo(_, _)
FoundUpTo(s, k) == IF k = 0 THEN 0 ELSE s[k].found_quantity + FoundUpTo(s, k - 1)

InTimestampOrder(s) ==
    \A i, j \in 1..Len(s) : i < j => ~Before(s[j].order_date, s[i].order_date)

SameRows(s, t) ==
    /\ Len(s) = Len(t)
    /\ \A e \in Events : Cardinality({i \in 1..Len(s) : s[i] = e})
                         = Cardinality({i \in 1..Len(t) : t[i] = e})

InCurrentGroup(e) == e.sku = sku /\ DayOf(e.order_date) = day

\* Events that may follow the first failing event of the scanned day.
Trailing == UNION {[1..n -> {e \in Events : InCurrentGroup(e)}] : n \in 0..2}

\* C1 (monotonic stop): the events of a scanned (sku, day) group are taken
\* in timestamp order, the recorded threshold is the sum of found_quantity
\* over the longest fully served prefix, the failing event's quantity is
\* left out, and whatever follows the first failing event changes nothing.
MonotonicStop ==
    Extracted =>
        LET k == ServedPrefix(day_df)
        IN  /\ InTimestampOrder(day_df)
            /\ SameRows(day_df, GroupRows(df, sku, day))
            /\ threshold_for_day = FoundUpTo(day_df, k)
            /\ LastDaily = [sku |-> sku, day |-> day, threshold |-> FoundUpTo(day_df, k)]
            /\ k < Len(day_df) =>
                   \A t \in Trailing :
                      ThresholdForDay(SubSeq(day_df, 1, k + 1) \o t, columns)
                         = threshold_for_day

MonotonicStopWitness ==
    /\ Extracted
    /\ Len(day_df) = 3
    /\ ServedPrefix(day_df) = 1
    /\ FullyServed(day_df[3])
    /\ threshold_for_day = 1

RECURSIVE GroupFound(_)
GroupFound(i) ==
    IF i = 0 THEN 0
    ELSE (IF InCurrentGroup(df[i]) THEN df[i].found_quantity ELSE 0) + GroupFound(i - 1)

AllServed == \A i \in 1..Len(df) : InCurrentGroup(df[i]) => FullyServed(df[i])

\* C2 (full service): when no event of the scanned group fails the check,
\* the scan reaches the end of the day and the threshold is the sum of
\* found_quantity over all the events of that group in the table.
FullService ==
    (Extracted /\ AllServed) =>
        /\ ScanDay(day_df, columns).threshold_for_day = None
        /\ threshold_for_day = GroupFound(Len(df))
        /\ LastDaily.threshold = GroupFound(Len(df))

FullServiceWitness ==
    /\ Extracted
    /\ AllServed
    /\ Len(day_df) >= 2
    /\ threshold_for_day >= 2

\* C3 (zero threshold): when the first event scanned, which no event of the
\* day precedes in time, fails the check, the day's threshold is 0.
ZeroThreshold ==
    (Extracted /\ ~FullyServed(day_df[1])) =>
        /\ \A i \in 1..Len(day_df) :
              ~Before(day_df[i].order_date, day_df[1].order_date)
        /\ threshold_for_day = 0
        /\ LastDaily.threshold = 0

ZeroThresholdWitness ==
    /\ Extracted
    /\ Len(day_df) >= 2
    /\ RemovedAnyCase(day_df[1])
    /\ day_df[1].found_quantity = day_df[1].ordered_quantity
    /\ FullyServed(day_df[2])
    /\ threshold_for_day = 0

Descending(frame) ==
    \A i, j \in 1..Len(frame) :
        i < j => ~RatLess(frame[i].Average, frame[j].Average)

\* Position of the first row of the table that carries SKU s.
FirstSeen(s) ==
    CHOOSE i \in 1..Len(df) : df[i].sku = s /\ \A j \in 1..(i - 1) : df[j].sku # s

\* C4 (ranking order): the returned rows are in descending order of Average
\* and SKUs with equal Average appear in the order in which they were first
\* met in the table.
RankingOrder ==
    Ranked =>
        /\ Descending(result_df)
        /\ \A i, j \in 1..Len(result_df) :
              (i < j /\ result_df[i].Average = result_df[j].Average)
                 => FirstSeen(result_df[i].sku) < FirstSeen(result_df[j].sku)

RowSet(frame) == {frame[i] : i \in 1..Len(frame)}

Averages(frame) == [i \in 1..Len(frame) |-> frame[i].Average]

SkuRanking(frame) == [i \in 1..Len(frame) |-> frame[i].sku]

\* The table has been processed a second time, its rows in another order.
Reran == prev.ran /\ pc = "done"

\* No two events of one (sku, day) group share a timestamp.
DistinctStamps ==
    \A i, j \in 1..Len(df) :
        (i # j /\ df[i].sku = df[j].sku) => df[i].order_date # df[j].order_date

WeeksObserved == {WeekOf(DayOf(df[i].order_date)) : i \in 1..Len(df)}

\* The daily thresholds of SKU s that fall in week w.
DaysIn(s, w) ==
    {i \in 1..Len(daily_thresholds) :
        daily_thresholds[i].sku = s /\ WeekOf(daily_thresholds[i].day) = w}

Zero == [n |-> 0, d |-> 1]

\* C6 (missing cell is not zero): the result has one column per week
\* observed in the table; a cell of a SKU without a daily threshold in that
\* week is missing, never 0; a cell is 0 only when the SKU has days in that
\* week and all their thresholds are 0.
MissingCellNotZero ==
    Ranked =>
        \A i \in 1..Len(result_df) :
            LET r == result_df[i]
            IN  /\ DOMAIN r.cells = WeeksObserved
                /\ \A w \in WeeksObserved :
                      /\ DaysIn(r.sku, w) = {} => (IsNaN(r.cells[w]) /\ r.cells[w] # Zero)
                      /\ DaysIn(r.sku, w) # {} => ~IsNaN(r.cells[w])
                      /\ r.cells[w] = Zero =>
                            /\ DaysIn(r.sku, w) # {}
                            /\ \A d \in DaysIn(r.sku, w) : daily_thresholds[d].threshold = 0

MissingCellNotZeroWitness ==
    /\ Ranked
    /\ \E i \in 1..Len(result_df) : \E w \in WeeksObserved : IsNaN(result_df[i].cells[w])
    /\ \E i \in 1..Len(result_df) : \E w \in WeeksObserved : result_df[i].cells[w] = Zero

RECURSIVE ThresholdTotal(_)
ThresholdTotal(S) ==
    IF S = {} THEN 0
    ELSE LET d == CHOOSE x \in S : TRUE
         IN  daily_thresholds[d].threshold + ThresholdTotal(S \ {d})

RECURSIVE DenProduct(_, _)
DenProduct(cells, S) ==
    IF S = {} THEN 1
    ELSE LET w == CHOOSE x \in S : TRUE
         IN  cells[w].d * DenProduct(cells, S \ {w})

\* The sum of the cells of S, each scaled by the common denominator L.
RECURSIVE ScaledTotal(_, _, _)
ScaledTotal(cells, S, L) ==
    IF S = {} THEN 0
    ELSE LET w == CHOOSE x \in S : TRUE
         IN  cells[w].n * (L \div cells[w].d) + ScaledTotal(cells, S \ {w}, L)

\* C7 (Average column): every weekly cell is the mean of the SKU's daily
\* thresholds of that week; Average is the mean of the SKU's non-missing
\* cells only; every SKU with a daily threshold has a row with at least one
\* cell, so Average is defined.
AverageColumn ==
    Ranked =>
        /\ \A d \in 1..Len(daily_thresholds) :
              \E i \in 1..Len(result_df) : result_df[i].sku = daily_thresholds[d].sku
        /\ \A i \in 1..Len(result_df) :
              LET r == result_df[i]
                  V == {w \in DOMAIN r.cells : ~IsNaN(r.cells[w])}
                  L == DenProduct(r.cells, V)
              IN  /\ V # {}
                  /\ ~IsNaN(r.Average)
                  /\ \A w \in V :
                        r.cells[w].n * Cardinality(DaysIn(r.sku, w))
                           = r.cells[w].d * ThresholdTotal(DaysIn(r.sku, w))
                  /\ r.Average.n * Cardinality(V) * L
                        = r.Average.d * ScaledTotal(r.cells, V, L)

AverageColumnWitness ==
    /\ Ranked
    /\ \E i \in 1..Len(result_df) :
          /\ \E w \in DOMAIN result_df[i].cells : IsNaN(result_df[i].cells[w])
          /\ \E w \in DOMAIN result_df[i].cells :
                /\ result_df[i].cells[w] = [n |-> 1, d |-> 2]
                /\ Cardinality(DaysIn(result_df[i].sku, w)) = 2
          /\ result_df[i].Average = [n |-> 1, d |-> 2]

Required == AllColumns \ {"state"}

\* C8 (missing-column handling): a table that lacks a required column or
\* holds an unparsable timestamp ends in a reported error and an empty
\* result, with no exception leaving process_csv; a table that lacks only
\* the state column is processed without error.
MissingColumnHandled ==
    pc = "done" =>
        /\ (~(Required \subseteq columns) \/ unparsable) =>
              /\ raised = "none"
              /\ errors # <<>>
              /\ result_df = <<>>
              /\ shown = {}
        /\ (columns = Required /\ df # <<>>) =>
              /\ raised = "none"
              /\ errors = <<>>

\* C9 (empty dataset): a table of no events yields an empty result and one
\* error message, no exception; main shows neither table nor download, and
\* the weekly grouping, pivot, Average and sort have not run.
EmptyDataset ==
    (pc = "done" /\ df = <<>> /\ Required \subseteq columns) =>
        /\ daily_thresholds = <<>>
        /\ result_df = <<>>
        /\ Len(errors) = 1
        /\ raised = "none"
        /\ shown = {}
        /\ weekly = {}

EmptyDatasetWitness ==
    /\ pc = "done"
    /\ df = <<>>
    /\ columns = AllColumns
    /\ errors = <<"No threshold data could be computed from the CSV file.">>
    /\ shown = {}

\* The rows in ascending timestamp order, equal timestamps in table order.
StableOrder(rows) ==
    LET n == Len(rows)
        p == CHOOSE q \in Perms(n) :
                \A i, j \in 1..n :
                    i < j => \/ Before(rows[q[i]].order_date, rows[q[j]].order_date)
                             \/ /\ rows[q[i]].order_date = rows[q[j]].order_date
                                /\ q[i] < q[j]
    IN  [i \in 1..n |-> rows[p[i]]]

====
